---- MODULE Spec2Model ----
(***************************************************************************)
(* KodaCare: the condition-card upsert engine (HealthConditionService),    *)
(* its entity (HealthCondition) and the name normalisation it relies on;   *)
(* the mascot memory store and the process_input pipeline of               *)
(* AuraMascotAgent, with the condition log it persists.                    *)
(*                                                                         *)
(* Requests are handled by independent workers; every call to the          *)
(* document store (find_one, insert_one, update_one) is one atomic step.   *)
(* The python code between two store calls is merged into the step of the  *)
(* store call that precedes it, and the code before an operation's first   *)
(* store call into that first call.  The bookkeeping stamps created_at and *)
(* updated_at of a card are not part of the model.                         *)
(***************************************************************************)
EXTENDS Integers, Sequences, FiniteSets, TLC

\* ------------------------------------------------------------------------
\* Bounds
\* ------------------------------------------------------------------------
MaxLen == 3      \* longest raw string fed to the normaliser
MaxClock == 1    \* the wall clock runs 0..MaxClock
MaxCalls == 3    \* service calls started in one behaviour
MaxRuns == 2     \* process_input runs started in one behaviour
MaxHistory == 2  \* longest conversation history sent along with a request

Procs == {"w1", "w2"}          \* concurrent request workers
Users == {"u1", "u2"}          \* patients (ObjectId hex strings)

\* characters: lower-case letters, upper-case letters, whitespace, punctuation
LowerCase == {"a", "b"}
UpperCase == {"A", "B"}
Alphabet == LowerCase \cup UpperCase \cup {" ", "'"}

\* raw condition names as they arrive from the oracle
RawNames == { <<"a", "b">>, <<" ", "A", "B">>, <<"b">> }

VARIABLES
    cards,      \* the health_conditions collection: a set of documents
    nextId,     \* next ObjectId the store hands out
    clock,      \* datetime.now(timezone.utc)
    pc,         \* per worker: position in the call it is running
    local,      \* per worker: arguments, locals and return value of its call
    nCalls,     \* service calls started so far
    returned,   \* per (user, normalised name): successful find_or_create returns
    str,        \* normaliser input
    norm,       \* normaliser output
    npc,        \* position of the normaliser run
    memory,     \* the mascot_memory collection: a set of documents
    mpc,        \* per worker: position in the memory call it is running
    mlocal,     \* per worker: arguments, locals and return value of that call
    appended,   \* per user: the lines append_to_summary has stored, in order
    logs,       \* the condition_logs collection: a set of documents
    run,        \* the process_input run of the request thread
    nRuns,      \* process_input runs started so far
    instr,      \* per worker: its last generate_system_instruction call
    req         \* the last oracle request built from the inputs of a run

cardVars == <<cards, nextId, clock, pc, local, nCalls, returned>>
normVars == <<str, norm, npc>>
memVars == <<memory, mpc, mlocal, appended>>
pipeVars == <<logs, run, nRuns>>
pureVars == <<instr, req>>
vars == <<cards, nextId, clock, pc, local, nCalls, returned, str, norm, npc,
          memory, mpc, mlocal, appended, logs, run, nRuns, instr, req>>

\* ------------------------------------------------------------------------
\* str.strip() and str.title()
\* ------------------------------------------------------------------------
IsSpace(c) == c = " "

IsCased(c) == c \in LowerCase \cup UpperCase

ToUpper(c) == CASE c = "a" -> "A" [] c = "b" -> "B" [] OTHER -> c

ToLower(c) == CASE c = "A" -> "a" [] c = "B" -> "b" [] OTHER -> c

RECURSIVE LStrip(_)
LStrip(s) ==
    IF s = <<>> THEN s
    ELSE IF IsSpace(Head(s)) THEN LStrip(Tail(s)) ELSE s

RECURSIVE RStrip(_)
RStrip(s) ==
    IF s = <<>> THEN s
    ELSE IF IsSpace(s[Len(s)]) THEN RStrip(SubSeq(s, 1, Len(s) - 1)) ELSE s

\* a strip that removes at most one blank from each end
StripOne(s) ==
    LET l == IF s # <<>> /\ IsSpace(Head(s)) THEN Tail(s) ELSE s
    IN  IF l # <<>> /\ IsSpace(l[Len(l)]) THEN SubSeq(l, 1, Len(l) - 1) ELSE l

Strip(s) == RStrip(LStrip(s))

RECURSIVE TitleFrom(_, _)
TitleFrom(s, previousIsCased) ==
    IF s = <<>> THEN <<>>
    ELSE LET c == Head(s)
         IN  <<IF previousIsCased THEN ToLower(c) ELSE ToUpper(c)>>
                \o TitleFrom(Tail(s), IsCased(c))

Title(s) == TitleFrom(s, FALSE)

\* a normaliser that trims but keeps the letter case
NormalizeNoTitle(s) == Strip(s)

\* condition_name.strip().title()
Normalize(s) == Title(Strip(s))

Strings == UNION { [1..n -> Alphabet] : n \in 0..MaxLen }

\* ------------------------------------------------------------------------
\* Documents and entities
\* ------------------------------------------------------------------------
ACTIVE == "active"
RESOLVED == "resolved"

\* python None / a find_one that matched nothing
None == [id |-> 0, user_id |-> "", condition_name |-> <<>>, status |-> "",
         log_count |-> 0, first_reported |-> 0, last_reported |-> 0]

\* HealthCondition.__init__ called with log_count = 0 (its default)
NewCardZero(u, n, now) ==
    [id |-> 0, user_id |-> u, condition_name |-> Normalize(n), status |-> ACTIVE,
     log_count |-> 0, first_reported |-> now, last_reported |-> now]

\* a card born resolved
NewCardResolved(u, n, now) ==
    [id |-> 0, user_id |-> u, condition_name |-> Normalize(n), status |-> RESOLVED,
     log_count |-> 1, first_reported |-> now, last_reported |-> now]

\* HealthCondition(user_id, condition_name=normalised, ACTIVE, log_count=1, now, now)
NewCard(u, n, now) ==
    [id |-> 0, user_id |-> u, condition_name |-> Normalize(n), status |-> ACTIVE,
     log_count |-> 1, first_reported |-> now, last_reported |-> now]

\* HealthCondition.from_dict: hydration re-normalises the stored name
FromDict(doc) == [doc EXCEPT !.condition_name = Normalize(doc.condition_name)]

\* HealthCondition.record_new_log
RecordNewLog(card) ==
    [card EXCEPT !.log_count = card.log_count + 1,
                 !.last_reported = clock]

\* a resolve that toggles the status
ResolveToggle(card) ==
    [card EXCEPT !.status = IF card.status = RESOLVED THEN ACTIVE ELSE RESOLVED]

\* HealthCondition.resolve
Resolve(card) == [card EXCEPT !.status = RESOLVED]

\* a reactivate that forgets to change the status
ReactivateNoop(card) == [card EXCEPT !.status = card.status]

\* HealthCondition.reactivate
Reactivate(card) == [card EXCEPT !.status = ACTIVE]

\* ------------------------------------------------------------------------
\* The document store
\* ------------------------------------------------------------------------
\* find_one({"user_id": u, "condition_name": n})
FindByName(u, n) ==
    IF \E d \in cards : d.user_id = u /\ d.condition_name = n
    THEN CHOOSE d \in cards : d.user_id = u /\ d.condition_name = n
    ELSE None

\* find_one({"_id": id})
FindById(id) ==
    IF \E d \in cards : d.id = id
    THEN CHOOSE d \in cards : d.id = id
    ELSE None

\* a store whose index was never created
NoUniqueIndex(doc) == FALSE

\* the unique index uq_user_condition on (user_id, condition_name)
DuplicateKey(doc) ==
    \E d \in cards : d.user_id = doc.user_id /\ d.condition_name = doc.condition_name

CardsFor(u, n) == { d \in cards : d.user_id = u /\ d.condition_name = n }

NormNames == { Normalize(r) : r \in RawNames }

\* ------------------------------------------------------------------------
\* Workers
\* ------------------------------------------------------------------------
Idle == [op |-> "none", user_id |-> "", raw |-> <<>>, normalised |-> <<>>,
         now |-> 0, condition_id |-> 0, doc |-> None, card |-> None,
         is_new |-> FALSE, result |-> "none", k |-> 0,
         status |-> "", list |-> <<>>]

Free(p) == pc[p] \in {"idle", "done"}

Quiescent == \A q \in Procs : Free(q)

\* find_or_create(user_id, condition_name) up to its first store call:
\* normalise the name, read the clock, find_one, then either record_new_log
\* (+ reactivate) or the new entity
FocFind(p, u, r) ==
    /\ Free(p)
    /\ nCalls < MaxCalls
    /\ nCalls' = nCalls + 1
    /\ LET normalised == Normalize(r)
           now == clock
           l == [Idle EXCEPT !.op = "find_or_create", !.user_id = u, !.raw = r,
                             !.normalised = normalised, !.now = now]
           doc == FindByName(u, normalised)
       IN  IF doc # None
           THEN LET c1 == RecordNewLog(FromDict(doc))
                    c2 == IF c1.status = RESOLVED THEN Reactivate(c1) ELSE c1
                IN  /\ local' = [local EXCEPT ![p] = [l EXCEPT !.doc = doc, !.card = c2]]
                    /\ pc' = [pc EXCEPT ![p] = "update"]
           ELSE /\ local' = [local EXCEPT ![p] =
                                [l EXCEPT !.card = NewCard(u, normalised, now)]]
                /\ pc' = [pc EXCEPT ![p] = "insert"]
    /\ UNCHANGED <<cards, nextId, clock, returned, normVars, pureVars, memVars, pipeVars>>

\* update_one({"_id": card.id}, {"$set": log_count, last_reported, status})
FocUpdate(p) ==
    /\ pc[p] = "update"
    /\ LET l == local[p]
           c == l.card
           key == <<l.user_id, l.normalised>>
       IN  /\ cards' = { IF d.id = c.id
                         THEN [d EXCEPT !.log_count = c.log_count,
                                        !.last_reported = c.last_reported,
                                        !.status = c.status]
                         ELSE d : d \in cards }
           /\ returned' = [returned EXCEPT ![key] = @ + 1]
           /\ local' = [local EXCEPT ![p] = [l EXCEPT !.is_new = FALSE, !.now = 0,
                                                      !.result = "ok",
                                                      !.k = returned[key] + 1]]
    /\ pc' = [pc EXCEPT ![p] = "done"]
    /\ UNCHANGED <<nextId, clock, nCalls, normVars, pureVars, memVars, pipeVars>>

\* insert_one(card.to_dict()): the unique index rejects a second (user, name)
FocInsert(p) ==
    /\ pc[p] = "insert"
    /\ LET l == local[p]
           key == <<l.user_id, l.normalised>>
       IN  IF DuplicateKey(l.card)
           THEN /\ local' = [local EXCEPT ![p] = [l EXCEPT !.result = "DuplicateKeyError", !.now = 0]]
                /\ UNCHANGED <<cards, nextId, returned>>
           ELSE /\ cards' = cards \cup { [l.card EXCEPT !.id = nextId] }
                /\ nextId' = nextId + 1
                /\ returned' = [returned EXCEPT ![key] = @ + 1]
                /\ local' = [local EXCEPT ![p] =
                                [l EXCEPT !.card = [l.card EXCEPT !.id = nextId],
                                          !.is_new = TRUE, !.now = 0,
                                          !.result = "ok",
                                          !.k = returned[key] + 1]]
    /\ pc' = [pc EXCEPT ![p] = "done"]
    /\ UNCHANGED <<clock, nCalls, normVars, pureVars, memVars, pipeVars>>

\* resolve_condition(condition_id) up to its write: get_condition_by_id,
\* then card.resolve()
ResolveRead(p, id) ==
    /\ Free(p)
    /\ nCalls < MaxCalls
    /\ nCalls' = nCalls + 1
    /\ LET l == [Idle EXCEPT !.op = "resolve_condition", !.condition_id = id]
           doc == FindById(id)
       IN  IF doc = None
           THEN /\ local' = [local EXCEPT ![p] = [l EXCEPT !.result = "None"]]
                /\ pc' = [pc EXCEPT ![p] = "done"]
           ELSE /\ local' = [local EXCEPT ![p] =
                                [l EXCEPT !.doc = doc, !.card = Resolve(FromDict(doc))]]
                /\ pc' = [pc EXCEPT ![p] = "resolve_write"]
    /\ UNCHANGED <<cards, nextId, clock, returned, normVars, pureVars, memVars, pipeVars>>

\* update_one({"_id": card.id}, {"$set": status})
ResolveWrite(p) ==
    /\ pc[p] = "resolve_write"
    /\ LET l == local[p]
           c == l.card
       IN  /\ cards' = { IF d.id = c.id
                         THEN [d EXCEPT !.status = c.status]
                         ELSE d : d \in cards }
           /\ local' = [local EXCEPT ![p] = [l EXCEPT !.result = "ok"]]
    /\ pc' = [pc EXCEPT ![p] = "done"]
    /\ UNCHANGED <<nextId, clock, nCalls, returned, normVars, pureVars, memVars, pipeVars>>

\* get_condition_by_name(user_id, condition_name)
GetConditionByName(p, u, r) ==
    /\ Free(p)
    /\ nCalls < MaxCalls
    /\ nCalls' = nCalls + 1
    /\ LET doc == FindByName(u, Normalize(r))
       IN  local' = [local EXCEPT ![p] =
                        [Idle EXCEPT !.op = "get_condition_by_name",
                                     !.user_id = u,
                                     !.raw = r,
                                     !.normalised = Normalize(r),
                                     !.doc = doc,
                                     !.card = IF doc = None THEN None ELSE FromDict(doc),
                                     !.result = IF doc = None THEN "None" ELSE "ok"]]
    /\ pc' = [pc EXCEPT ![p] = "done"]
    /\ UNCHANGED <<cards, nextId, clock, returned, normVars, pureVars, memVars, pipeVars>>

\* status=None: no restriction on the status
AnyStatus == "any"

StatusFilters == {AnyStatus, ACTIVE, RESOLVED}

\* find({"user_id": u}) or find({"user_id": u, "status": status})
Matching(u, status) ==
    { d \in cards : d.user_id = u /\ (status = AnyStatus \/ d.status = status) }

\* mutant of SortedLists: sort("last_reported", 1), oldest first
SortedListsAscending(S) ==
    { f \in [1..Cardinality(S) -> S] :
        /\ \A i, j \in DOMAIN f : i # j => f[i] # f[j]
        /\ \A i, j \in DOMAIN f : i < j => f[i].last_reported <= f[j].last_reported }

\* .sort("last_reported", -1): every order of the documents that is
\* descending in last_reported; documents with equal last_reported come in
\* any order
SortedLists(S) ==
    { f \in [1..Cardinality(S) -> S] :
        /\ \A i, j \in DOMAIN f : i # j => f[i] # f[j]
        /\ \A i, j \in DOMAIN f : i < j => f[i].last_reported >= f[j].last_reported }

\* get_conditions_for_user(user_id, status)
GetConditionsForUser(p, u, status) ==
    /\ Free(p)
    /\ nCalls < MaxCalls
    /\ nCalls' = nCalls + 1
    /\ \E list \in SortedLists(Matching(u, status)) :
          local' = [local EXCEPT ![p] =
                       [Idle EXCEPT !.op = "get_conditions_for_user",
                                    !.user_id = u,
                                    !.status = status,
                                    !.list = list,
                                    !.result = "ok"]]
    /\ pc' = [pc EXCEPT ![p] = "done"]
    /\ UNCHANGED <<cards, nextId, clock, returned, normVars, pureVars, memVars, pipeVars>>

\* the wall clock advances
Tick ==
    /\ clock < MaxClock
    /\ clock' = clock + 1
    /\ UNCHANGED <<cards, nextId, pc, local, nCalls, returned, normVars, pureVars, memVars, pipeVars>>

\* ------------------------------------------------------------------------
\* The mascot memory (MascotMemory, AuraMascotAgent memory persistence)
\* ------------------------------------------------------------------------
\* summary lines handed to append_to_summary: strings are sequences of
\* characters, the empty string included
Lines == { <<>>, <<"x">>, <<"y">> }

NewLine == "\n"

\* an absent argument (None)
NoValue == "none"

\* PersonaPreferences()
DefaultPreferences ==
    [tone |-> "gentle", name_used |-> "friend", mascot_name |-> "Barnaby the Bear"]

\* the absent document
NoMemory == [id |-> 0, user_id |-> "", persona_preferences |-> DefaultPreferences,
             summary_memory |-> <<>>]

\* MascotMemory(user_id=user_id)
NewMemory(u) == [NoMemory EXCEPT !.user_id = u]

\* find_one({"user_id": user_id}): the first matching document in natural
\* (insertion) order
FindMemory(u) ==
    LET ds == { d \in memory : d.user_id = u }
    IN  IF ds = {} THEN NoMemory
        ELSE CHOOSE d \in ds : \A e \in ds : d.id <= e.id

\* mutant of AppendLine: the separator is written even onto an empty summary
AppendLineAlwaysSeparator(summary, addition) == summary \o <<NewLine>> \o addition

\* append_to_summary: summary += "\n" + addition if summary else addition
AppendLine(summary, addition) ==
    IF summary # <<>> THEN summary \o <<NewLine>> \o addition ELSE addition

\* update_preferences arguments: every field is a value or absent
NoFields == [tone |-> NoValue, name_used |-> NoValue, mascot_name |-> NoValue]

PrefUpdates ==
    { [NoFields EXCEPT !.tone = "playful"],
      [NoFields EXCEPT !.name_used = "Sam", !.mascot_name = "Koda"] }

\* mutant of MergePreferences: an unsupplied field falls back to its default
MergePreferencesReset(prefs, fields) ==
    [k \in DOMAIN prefs |->
        IF fields[k] # NoValue THEN fields[k] ELSE DefaultPreferences[k]]

\* MascotMemory.update_preferences: only the fields that are not None
MergePreferences(prefs, fields) ==
    [k \in DOMAIN prefs |-> IF fields[k] # NoValue THEN fields[k] ELSE prefs[k]]

MIdle == [op |-> "none", user_id |-> "", addition |-> <<>>, fields |-> NoFields,
          memory |-> NoMemory, result |-> "none"]

MFree(p) == mpc[p] \in {"idle", "done"}

MQuiescent == \A q \in Procs : MFree(q)

\* the in-memory change an operation makes before _save
Mutate(op, m, addition, fields) ==
    IF op = "append_to_summary"
    THEN [m EXCEPT !.summary_memory = AppendLine(m.summary_memory, addition)]
    ELSE IF op = "update_preferences"
    THEN [m EXCEPT !.persona_preferences = MergePreferences(@, fields)]
    ELSE m

\* get_memory: find_one by user; a hit is hydrated (and mutated, for a
\* writing operation), a miss leaves the fresh MascotMemory to insert
MemFind(p, u, op, addition, fields) ==
    /\ LET doc == FindMemory(u)
           l == [MIdle EXCEPT !.op = op, !.user_id = u, !.addition = addition,
                              !.fields = fields]
       IN  IF doc # NoMemory
           THEN IF op = "get_or_create_memory"
                THEN /\ mlocal' = [mlocal EXCEPT ![p] = [l EXCEPT !.memory = doc,
                                                                  !.result = "ok"]]
                     /\ mpc' = [mpc EXCEPT ![p] = "done"]
                ELSE /\ mlocal' = [mlocal EXCEPT ![p] =
                                     [l EXCEPT !.memory = Mutate(op, doc, addition, fields)]]
                     /\ mpc' = [mpc EXCEPT ![p] = "save"]
           ELSE /\ mlocal' = [mlocal EXCEPT ![p] = [l EXCEPT !.memory = NewMemory(u)]]
                /\ mpc' = [mpc EXCEPT ![p] = "insert"]
    /\ UNCHANGED <<memory, appended>>

\* get_or_create_memory(user_id)
GetOrCreateMemory(p, u) ==
    /\ MFree(p)
    /\ nCalls < MaxCalls
    /\ nCalls' = nCalls + 1
    /\ MemFind(p, u, "get_or_create_memory", <<>>, NoFields)
    /\ UNCHANGED <<cards, nextId, clock, pc, local, returned, normVars, pureVars, pipeVars>>

\* append_to_summary(user_id, addition)
AppendToSummary(p, u, addition) ==
    /\ MFree(p)
    /\ nCalls < MaxCalls
    /\ nCalls' = nCalls + 1
    /\ MemFind(p, u, "append_to_summary", addition, NoFields)
    /\ UNCHANGED <<cards, nextId, clock, pc, local, returned, normVars, pureVars, pipeVars>>

\* update_preferences(user_id, tone, name_used, mascot_name)
UpdatePreferences(p, u, fields) ==
    /\ MFree(p)
    /\ nCalls < MaxCalls
    /\ nCalls' = nCalls + 1
    /\ MemFind(p, u, "update_preferences", <<>>, fields)
    /\ UNCHANGED <<cards, nextId, clock, pc, local, returned, normVars, pureVars, pipeVars>>

\* insert_one(memory.to_dict()): the collection has no unique index
MemInsert(p) ==
    /\ mpc[p] = "insert"
    /\ LET l == mlocal[p]
           m == [l.memory EXCEPT !.id = nextId]
       IN  /\ memory' = memory \cup { m }
           /\ nextId' = nextId + 1
           /\ IF l.op = "get_or_create_memory"
              THEN /\ mlocal' = [mlocal EXCEPT ![p] = [l EXCEPT !.memory = m,
                                                                !.result = "ok"]]
                   /\ mpc' = [mpc EXCEPT ![p] = "done"]
              ELSE /\ mlocal' = [mlocal EXCEPT ![p] =
                                   [l EXCEPT !.memory = Mutate(l.op, m, l.addition, l.fields)]]
                   /\ mpc' = [mpc EXCEPT ![p] = "save"]
    /\ UNCHANGED <<cards, clock, pc, local, nCalls, returned, appended,
                   normVars, pureVars, pipeVars>>

\* _save: update_one({"_id": memory.id}, {"$set": persona_preferences,
\* summary_memory, updated_at})
MemSave(p) ==
    /\ mpc[p] = "save"
    /\ LET l == mlocal[p]
           m == l.memory
       IN  /\ memory' = { IF d.id = m.id
                          THEN [d EXCEPT !.persona_preferences = m.persona_preferences,
                                         !.summary_memory = m.summary_memory]
                          ELSE d : d \in memory }
           /\ appended' = IF l.op = "append_to_summary"
                          THEN [appended EXCEPT ![l.user_id] = Append(@, l.addition)]
                          ELSE appended
           /\ mlocal' = [mlocal EXCEPT ![p] = [l EXCEPT !.result = "ok"]]
    /\ mpc' = [mpc EXCEPT ![p] = "done"]
    /\ UNCHANGED <<cardVars, normVars, pureVars, pipeVars>>

MemInit ==
    /\ memory = {}
    /\ mpc = [p \in Procs |-> "idle"]
    /\ mlocal = [p \in Procs |-> MIdle]
    /\ appended = [u \in Users |-> <<>>]

\* ------------------------------------------------------------------------
\* process_input (AuraMascotAgent) and the condition log (ConditionLog,
\* ConditionLogService.create_from_gemini_result)
\*
\* One request thread runs process_input calls one after another.  The
\* oracle call is one step; the calls into the memory store and the upsert
\* engine are the steps of those services, taken by the worker Handler.
\* ------------------------------------------------------------------------
Handler == "w1"

Texts == {NoValue, "hi"}
Audios == {NoValue, "bytes"}
Images == {NoValue, "bytes"}

\* InputMode
InputModes == {"text", "voice", "image", "text_image", "text_voice",
               "voice_image", "all"}

\* mutant of ModeOf: text with audio is classified before all three
ModeOfPairsFirst(text, audio, image) ==
    LET has_text == text # NoValue
        has_audio == audio # NoValue
        has_image == image # NoValue
    IN  IF has_text /\ has_audio THEN "text_voice"
        ELSE IF has_text /\ has_audio /\ has_image THEN "all"
        ELSE IF has_text /\ has_image THEN "text_image"
        ELSE IF has_audio /\ has_image THEN "voice_image"
        ELSE IF has_audio THEN "voice"
        ELSE IF has_image THEN "image"
        ELSE "text"

\* step 3 of process_input: the input mode from what is present
ModeOf(text, audio, image) ==
    LET has_text == text # NoValue
        has_audio == audio # NoValue
        has_image == image # NoValue
    IN  IF has_text /\ has_audio /\ has_image THEN "all"
        ELSE IF has_text /\ has_image THEN "text_image"
        ELSE IF has_text /\ has_audio THEN "text_voice"
        ELSE IF has_audio /\ has_image THEN "voice_image"
        ELSE IF has_audio THEN "voice"
        ELSE IF has_image THEN "image"
        ELSE "text"

\* step 1 of process_input: nothing usable was supplied
NothingSupplied(text, audio, image) ==
    text = NoValue /\ audio = NoValue /\ image = NoValue

\* a key the oracle's JSON object does not carry
Missing == "missing"

\* extracted_data objects: with and without the pain_level key
FullData == [has_pain_level |-> TRUE, pain_level |-> 6]
NoPainData == [has_pain_level |-> FALSE, pain_level |-> 0]
NoData == [has_pain_level |-> FALSE, pain_level |-> -1]

\* a response of the oracle: its text is empty, is not JSON, or is a JSON
\* object with these keys
Response(kind, action, name, data) ==
    [kind |-> kind, action |-> action, condition_name |-> name,
     extracted_data |-> data]

NoResponse == Response("none", Missing, <<>>, NoData)

OracleResponses ==
    { Response("empty", Missing, <<>>, NoData),
      Response("garbage", Missing, <<>>, NoData),
      Response("json", "general_chat", <<>>, NoData),
      Response("json", "request_clarification", <<"a", "b">>, FullData),
      Response("json", "update_condition", <<>>, FullData),
      Response("json", "update_condition", <<"a", "b">>, FullData),
      Response("json", "update_condition", <<" ", "A", "B">>, NoPainData),
      Response("json", "update_condition", <<"a", "b">>, NoData),
      Response("json", Missing, <<"a", "b">>, FullData) }

\* mutant of Unparsable: an empty response is taken for an empty object
UnparsableGarbageOnly(resp) == resp.kind = "garbage"

\* steps 7 and 8: no text, or text json.loads rejects
Unparsable(resp) == resp.kind \in {"empty", "garbage"}

\* mutant of Loggable: every action but general_chat is logged
LoggableUnlessChat(result) ==
    result.action # "general_chat" /\ result.condition_name # <<>>

\* step 9: result.get("action") == "update_condition" and
\* result.get("condition_name")
Loggable(result) ==
    result.action = "update_condition" /\ result.condition_name # <<>>

\* the default create_from_gemini_result stores for an absent pain_level
DefaultPainLevel == 0

PainText(n) == IF n = 6 THEN "6" ELSE "0"

\* step 9b: f"{condition_name}: pain {entry.get('pain_level', '?')}/10, ..."
SummaryLine(result) ==
    result.condition_name \o <<":">> \o
    << IF result.extracted_data.has_pain_level
       THEN PainText(result.extracted_data.pain_level) ELSE "?" >>

\* mutant of NewLog: the log is not linked to the card
NewLogUnlinked(u, result, mode, condition_id) ==
    [id |-> 0, user_id |-> u, condition_name |-> result.condition_name,
     pain_level |-> IF result.extracted_data.has_pain_level
                    THEN result.extracted_data.pain_level ELSE DefaultPainLevel,
     input_mode |-> mode, condition_id |-> 0]

\* ConditionLog(user_id, condition_name, pain_level=entry.get("pain_level", 0),
\* ..., input_mode, condition_id)
NewLog(u, result, mode, condition_id) ==
    [id |-> 0, user_id |-> u, condition_name |-> result.condition_name,
     pain_level |-> IF result.extracted_data.has_pain_level
                    THEN result.extracted_data.pain_level ELSE DefaultPainLevel,
     input_mode |-> mode, condition_id |-> condition_id]

\* step 9: find_or_create (9a), append_to_summary (9b),
\* create_from_gemini_result (9c), return
NextStage(stage) ==
    CASE stage = "upsert" -> "summary"
      [] stage = "summary" -> "log"
      [] OTHER -> "done"

\* what the stores hold: the cards, the logs and every user's summary
Snapshot ==
    [cards |-> cards, logs |-> logs,
     summaries |-> [u \in Users |-> FindMemory(u).summary_memory]]

NoSnapshot == [cards |-> {}, logs |-> {}, summaries |-> [u \in Users |-> <<>>]]

RunIdle == [pc |-> "idle", op |-> "none", user_id |-> "", text |-> NoValue, audio |-> NoValue,
            image |-> NoValue, force_log |-> FALSE, input_mode |-> "none",
            raw_text |-> "none", result |-> NoResponse, card_id |-> 0, log_id |-> 0,
            outcome |-> "none", oracle_calls |-> 0, events |-> <<>>,
            before |-> NoSnapshot]

\* the run ends by raising
Raise(r, error) == [r EXCEPT !.pc = "done", !.outcome = error]

\* the run has finished a stage of step 9 and moves on
Advance(r, stage, event) ==
    [r EXCEPT !.pc = NextStage(stage),
              !.events = Append(@, event),
              !.outcome = IF NextStage(stage) = "done" THEN "ok" ELSE @]

\* mutant of PiStart: the memory is fetched before the inputs are validated
PiStartMemoryFirst(u, text, audio, image, force_log) ==
    /\ run.pc \in {"idle", "done"}
    /\ nRuns < MaxRuns
    /\ nRuns' = nRuns + 1
    /\ LET r == [RunIdle EXCEPT !.op = "process_input",
                                !.user_id = u, !.text = text, !.audio = audio,
                                !.image = image, !.before = Snapshot]
       IN  /\ MemFind(Handler, u, "get_or_create_memory", <<>>, NoFields)
           /\ IF NothingSupplied(text, audio, image)
              THEN run' = Raise([r EXCEPT !.force_log = force_log], "ValueError")
              ELSE run' = [r EXCEPT !.pc = "oracle",
                                    !.input_mode = ModeOf(text, audio, image)]
    /\ pc' = [pc EXCEPT ![Handler] = "idle"]
    /\ local' = [local EXCEPT ![Handler] = Idle]
    /\ UNCHANGED <<cards, nextId, clock, nCalls, returned, normVars, pureVars, logs>>

\* process_input up to its first store call: resolve the inputs, validate,
\* find the user's memory, derive the input mode.  Past the validation
\* force_log only selects the system instruction sent to the oracle, whose
\* answer is arbitrary anyway, so the run keeps the flag only when it raises.
\* The locals of the previous run's find_or_create call are gone.
PiStart(u, text, audio, image, force_log) ==
    /\ run.pc \in {"idle", "done"}
    /\ nRuns < MaxRuns
    /\ nRuns' = nRuns + 1
    /\ LET r == [RunIdle EXCEPT !.op = "process_input",
                                !.user_id = u, !.text = text, !.audio = audio,
                                !.image = image, !.before = Snapshot]
       IN  IF NothingSupplied(text, audio, image)
           THEN /\ run' = Raise([r EXCEPT !.force_log = force_log], "ValueError")
                /\ UNCHANGED memVars
           ELSE /\ run' = [r EXCEPT !.pc = "oracle",
                                    !.input_mode = ModeOf(text, audio, image)]
                /\ MemFind(Handler, u, "get_or_create_memory", <<>>, NoFields)
    /\ pc' = [pc EXCEPT ![Handler] = "idle"]
    /\ local' = [local EXCEPT ![Handler] = Idle]
    /\ UNCHANGED <<cards, nextId, clock, nCalls, returned, normVars, pureVars, logs>>

\* steps 6 to 8 and the test of step 9: one generate_content call, the
\* response text parsed, the branch on the action
PiOracle(resp) ==
    /\ run.pc = "oracle"
    /\ mpc[Handler] = "done"
    /\ LET r == [run EXCEPT !.oracle_calls = @ + 1, !.raw_text = resp.kind]
       IN  IF Unparsable(resp)
           THEN run' = Raise(r, "RuntimeError")
           ELSE LET r2 == [r EXCEPT !.result = [resp EXCEPT !.kind = "json"]]
                IN  IF Loggable(resp)
                    THEN IF resp.extracted_data = NoData
                         THEN run' = Raise(r2, "KeyError")
                         ELSE run' = [r2 EXCEPT !.pc = "upsert"]
                    ELSE run' = [r2 EXCEPT !.pc = "done", !.outcome = "ok"]
    /\ pc' = [pc EXCEPT ![Handler] = "idle"]
    /\ UNCHANGED <<cards, nextId, clock, local, nCalls, returned, normVars, pureVars,
                   memVars, logs, nRuns>>

\* step 9a: find_or_create(user_id, result["condition_name"])
PiUpsert ==
    /\ run.pc = "upsert"
    /\ pc[Handler] = "idle"
    /\ FocFind(Handler, run.user_id, run.result.condition_name)

\* find_or_create has returned the card, or raised
PiUpserted ==
    /\ run.pc = "upsert"
    /\ pc[Handler] = "done"
    /\ IF local[Handler].result # "ok"
       THEN run' = Raise(run, local[Handler].result)
       ELSE run' = Advance([run EXCEPT !.card_id = local[Handler].card.id],
                           "upsert", "card")
    /\ UNCHANGED <<cardVars, normVars, pureVars, memVars, logs, nRuns>>

\* step 9b: append_to_summary(user_id, summary_line) up to its first store call
PiSummary ==
    /\ run.pc = "summary"
    /\ MemFind(Handler, run.user_id, "append_to_summary", SummaryLine(run.result),
               NoFields)
    /\ run' = [run EXCEPT !.pc = "saving"]
    /\ UNCHANGED <<cardVars, normVars, pureVars, logs, nRuns>>

\* append_to_summary has returned
PiSummarised ==
    /\ run.pc = "saving"
    /\ mpc[Handler] = "done"
    /\ run' = Advance(run, "summary", "summary")
    /\ UNCHANGED <<cardVars, normVars, pureVars, memVars, logs, nRuns>>

\* step 9c: create_from_gemini_result: insert_one(log.to_dict())
PiLog ==
    /\ run.pc = "log"
    /\ LET log == [NewLog(run.user_id, run.result, run.input_mode, run.card_id)
                       EXCEPT !.id = nextId]
       IN  /\ logs' = logs \cup { log }
           /\ nextId' = nextId + 1
           /\ run' = Advance([run EXCEPT !.log_id = log.id], "log", "log")
    /\ UNCHANGED <<cards, clock, pc, local, nCalls, returned, normVars, pureVars, memVars,
                   nRuns>>

\* a store call of the run is pending
StorePending ==
    \/ run.pc = "oracle" /\ mpc[Handler] = "insert"
    \/ run.pc = "upsert" /\ pc[Handler] # "done"
    \/ run.pc = "summary"
    \/ run.pc = "saving" /\ mpc[Handler] # "done"
    \/ run.pc = "log"

\* the pending store call raises (the store is unreachable): nothing is
\* written and the error leaves process_input
StorageFailure ==
    /\ StorePending
    /\ run' = Raise(run, "PyMongoError")
    /\ pc' = [pc EXCEPT ![Handler] = "idle"]
    /\ mpc' = [mpc EXCEPT ![Handler] = "idle"]
    /\ UNCHANGED <<cards, nextId, clock, local, nCalls, returned, normVars, pureVars,
                   memory, mlocal, appended, logs, nRuns>>

\* mutant of MayDelete: any signed-in user may delete any log
MayDeleteAny(log, requester) == TRUE

\* DELETE /api/logs/<id>: log.user_id == user_id
MayDelete(log, requester) == log.user_id = requester

\* the ids a delete request can name: those of stored logs and one of none
LogIds == { l.id : l \in logs } \cup {0}

\* DELETE /api/logs/<id> by a signed-in user, between process_input runs:
\* get_log_by_id, the ownership test, delete_one
DeleteLog(requester, log_id) ==
    /\ run.pc \in {"idle", "done"}
    /\ nRuns < MaxRuns
    /\ nRuns' = nRuns + 1
    /\ LET found == { l \in logs : l.id = log_id }
           r == [RunIdle EXCEPT !.op = "delete_log", !.pc = "done",
                                !.user_id = requester, !.log_id = log_id]
       IN  IF found = {}
           THEN /\ run' = [r EXCEPT !.outcome = "404"]
                /\ UNCHANGED logs
           ELSE IF \E l \in found : ~MayDelete(l, requester)
           THEN /\ run' = [r EXCEPT !.outcome = "403"]
                /\ UNCHANGED logs
           ELSE /\ run' = [r EXCEPT !.outcome = "200"]
                /\ logs' = logs \ found
    /\ UNCHANGED <<cardVars, normVars, pureVars, memVars>>

\* delete_all_for_user(user_id): delete_many({"user_id": user_id})
DeleteAllForUser(u) ==
    /\ run.pc \in {"idle", "done"}
    /\ nRuns < MaxRuns
    /\ nRuns' = nRuns + 1
    /\ logs' = { l \in logs : l.user_id # u }
    /\ run' = [RunIdle EXCEPT !.op = "delete_all_for_user", !.pc = "done",
                              !.user_id = u, !.outcome = "ok"]
    /\ UNCHANGED <<cardVars, normVars, pureVars, memVars>>

PipeInit ==
    /\ logs = {}
    /\ run = RunIdle
    /\ nRuns = 0

\* ------------------------------------------------------------------------
\* The pure parts of process_input: the system instruction and the request
\* ------------------------------------------------------------------------
\* memories handed to generate_system_instruction
InstrMemories ==
    { [NoMemory EXCEPT !.persona_preferences = pr, !.summary_memory = su] :
        pr \in { DefaultPreferences,
                 [tone |-> "playful", name_used |-> "Sam", mascot_name |-> "Koda"] },
        su \in { <<>>, <<"x">> } }

\* datetime.now(timezone.utc).strftime("%Y-%m-%dT%H:%M:%SZ"): the clock
\* counts seconds
NowIso(now) == ToString(now)

\* _MEMORY_EMPTY_NOTE.format(name_used=...)
MemoryEmptyNote(prefs) == <<"first conversation with", prefs.name_used>>

\* the six personality sections filled in, then _JSON_INSTRUCTION.format(now)
ComposeInstruction(prefs, summary, now) ==
    <<"who you are", prefs.mascot_name,
      "how you speak", prefs.tone, prefs.name_used,
      "goal", "vague input", prefs.name_used, "boundaries", prefs.name_used,
      "what you already know about", prefs.name_used>>
    \o (IF summary # <<>> THEN summary ELSE MemoryEmptyNote(prefs))
    \o <<"response format", NowIso(now)>>

NoInstruction == [user_id |-> "", memory |-> NoMemory, now |-> 0, text |-> <<>>]

\* generate_system_instruction(user_id, memory)
GenerateSystemInstruction(p, u, m) ==
    /\ instr' = [instr EXCEPT ![p] =
                    [user_id |-> u, memory |-> m, now |-> clock,
                     text |-> ComposeInstruction(m.persona_preferences,
                                                 m.summary_memory, clock)]]
    /\ UNCHANGED <<cardVars, normVars, memVars, pipeVars, req>>

\* inputs of process_input as they leave _resolve_audio / _resolve_image:
\* None, the bytes of an empty upload, or data
ReqAudios == Audios \cup {"empty"}
ReqImages == Images \cup {"empty"}

\* bytes that are not None and not empty
Truthy(bytes) == bytes \notin {NoValue, "empty"}

\* conversation_history: the roles of the prior turns
Roles == {"user", "assistant", "mascot"}
Histories == UNION { [1..n -> Roles] : n \in 0..MaxHistory }

\* step 5 of process_input: the prior turns, then the parts of the current
\* message in one user turn, if there are parts
BuildContents(history, text, audio, image, force_log) ==
    LET turns == [i \in 1..Len(history) |->
                    [role |-> IF history[i] = "user" THEN "user" ELSE "model",
                     parts |-> <<"history text">>]]
        media == (IF Truthy(audio) THEN <<"audio", "voice caption">> ELSE <<>>)
                 \o (IF Truthy(image) THEN <<"image", "photo caption">> ELSE <<>>)
                 \o (IF text # NoValue THEN <<"text">> ELSE <<>>)
        parts == IF force_log /\ media = <<>> THEN <<"nudge">> ELSE media
    IN  turns \o (IF parts # <<>> THEN << [role |-> "user", parts |-> parts] >>
                  ELSE <<>>)

NoRequest == [text |-> NoValue, audio |-> NoValue, image |-> NoValue,
              force_log |-> FALSE, history |-> <<>>, outcome |-> "none",
              contents |-> <<>>]

\* steps 1 and 5 of process_input: validate, then build the request
BuildRequest(history, text, audio, image, force_log) ==
    /\ LET r == [NoRequest EXCEPT !.text = text, !.audio = audio, !.image = image,
                                  !.force_log = force_log, !.history = history]
       IN  IF NothingSupplied(text, audio, image)
           THEN req' = [r EXCEPT !.outcome = "ValueError"]
           ELSE req' = [r EXCEPT !.outcome = "accepted",
                                 !.contents = BuildContents(history, text, audio,
                                                            image, force_log)]
    /\ UNCHANGED <<cardVars, normVars, memVars, pipeVars, instr>>

PureInit ==
    /\ instr = [p \in Procs |-> NoInstruction]
    /\ req = NoRequest

\* ------------------------------------------------------------------------
\* Specifications
\* ------------------------------------------------------------------------
Init ==
    /\ cards = {}
    /\ nextId = 1
    /\ clock = 0
    /\ pc = [p \in Procs |-> "idle"]
    /\ local = [p \in Procs |-> Idle]
    /\ nCalls = 0
    /\ returned = [key \in Users \X NormNames |-> 0]
    /\ str = <<>>
    /\ norm = <<>>
    /\ npc = "off"
    /\ MemInit
    /\ PipeInit
    /\ PureInit

CardIds == { d.id : d \in cards }

Next ==
    \/ Tick
    \/ \E p \in Procs, u \in Users, r \in RawNames : FocFind(p, u, r)
    \/ \E p \in Procs : FocUpdate(p)
    \/ \E p \in Procs : FocInsert(p)
    \/ \E p \in Procs, id \in CardIds : ResolveRead(p, id)
    \/ \E p \in Procs : ResolveWrite(p)

\* requests arrive concurrently (the read-only lookup by name is exercised
\* in the sequential specification)
Spec == Init /\ [][Next]_vars

\* requests arrive one after another: a call starts only when none is running
SeqNext ==
    \/ Tick
    \/ \E p \in Procs, u \in Users, r \in RawNames : Quiescent /\ FocFind(p, u, r)
    \/ \E p \in Procs : FocUpdate(p)
    \/ \E p \in Procs : FocInsert(p)
    \/ \E p \in Procs, id \in CardIds : Quiescent /\ ResolveRead(p, id)
    \/ \E p \in Procs : ResolveWrite(p)
    \/ \E p \in Procs, u \in Users, r \in RawNames : Quiescent /\ GetConditionByName(p, u, r)

SeqSpec == Init /\ [][SeqNext]_vars

\* ------------------------------------------------------------------------
\* The normaliser on its own: a raw name is normalised when it is written
\* (find_or_create) and normalised again when the document is hydrated
\* (HealthCondition.__init__)
\* ------------------------------------------------------------------------
NormInit ==
    /\ cards = {}
    /\ nextId = 1
    /\ clock = 0
    /\ pc = [p \in Procs |-> "idle"]
    /\ local = [p \in Procs |-> Idle]
    /\ nCalls = 0
    /\ returned = [key \in Users \X NormNames |-> 0]
    /\ str \in Strings
    /\ norm = <<>>
    /\ npc = "raw"
    /\ MemInit
    /\ PipeInit
    /\ PureInit

\* normalised = condition_name.strip().title()
NormWrite ==
    /\ npc = "raw"
    /\ norm' = Normalize(str)
    /\ npc' = "written"
    /\ UNCHANGED <<str, cardVars, memVars, pipeVars, pureVars>>

\* self.condition_name = condition_name.strip().title() on the stored name
NormHydrate ==
    /\ npc = "written"
    /\ str' = norm
    /\ norm' = Normalize(norm)
    /\ npc' = "hydrated"
    /\ UNCHANGED <<cardVars, memVars, pipeVars, pureVars>>

NormNext == NormWrite \/ NormHydrate

NormSpec == NormInit /\ [][NormNext]_vars

\* ------------------------------------------------------------------------
\* The memory store on its own
\* ------------------------------------------------------------------------
\* memory calls arrive concurrently
MemNext ==
    \/ \E p \in Procs, u \in Users : GetOrCreateMemory(p, u)
    \/ \E p \in Procs, u \in Users, a \in Lines : AppendToSummary(p, u, a)
    \/ \E p \in Procs, u \in Users, f \in PrefUpdates : UpdatePreferences(p, u, f)
    \/ \E p \in Procs : MemInsert(p)
    \/ \E p \in Procs : MemSave(p)

MemSpec == Init /\ [][MemNext]_vars

\* memory calls arrive one after another
MemSeqNext ==
    \/ \E p \in Procs, u \in Users : MQuiescent /\ GetOrCreateMemory(p, u)
    \/ \E p \in Procs, u \in Users, a \in Lines : MQuiescent /\ AppendToSummary(p, u, a)
    \/ \E p \in Procs, u \in Users, f \in PrefUpdates :
          MQuiescent /\ UpdatePreferences(p, u, f)
    \/ \E p \in Procs : MemInsert(p)
    \/ \E p \in Procs : MemSave(p)

MemSeqSpec == Init /\ [][MemSeqNext]_vars

\* ------------------------------------------------------------------------
\* The process_input pipeline
\* ------------------------------------------------------------------------
PipeNext ==
    \/ \E u \in Users, text \in Texts, audio \in Audios, image \in Images,
          force_log \in BOOLEAN : PiStart(u, text, audio, image, force_log)
    \/ MemInsert(Handler)
    \/ \E resp \in OracleResponses : PiOracle(resp)
    \/ PiUpsert
    \/ FocUpdate(Handler)
    \/ FocInsert(Handler)
    \/ PiUpserted
    \/ PiSummary
    \/ MemSave(Handler)
    \/ PiSummarised
    \/ PiLog
    \/ StorageFailure

PipeSpec == Init /\ [][PipeNext]_vars

\* the pipeline together with the deletion of logs
LogNext ==
    \/ PipeNext
    \/ \E requester \in Users, log_id \in LogIds : DeleteLog(requester, log_id)
    \/ \E u \in Users : DeleteAllForUser(u)

LogSpec == Init /\ [][LogNext]_vars

\* ------------------------------------------------------------------------
\* The card engine with the listing of a user's cards
\* ------------------------------------------------------------------------
ListNext ==
    \/ Tick
    \/ \E p \in Procs, u \in Users, r \in RawNames : Quiescent /\ FocFind(p, u, r)
    \/ \E p \in Procs : FocUpdate(p)
    \/ \E p \in Procs : FocInsert(p)
    \/ \E p \in Procs, id \in CardIds : Quiescent /\ ResolveRead(p, id)
    \/ \E p \in Procs : ResolveWrite(p)
    \/ \E p \in Procs, u \in Users, status \in StatusFilters :
          Quiescent /\ GetConditionsForUser(p, u, status)

ListSpec == Init /\ [][ListNext]_vars

\* ------------------------------------------------------------------------
\* The pure parts on their own
\* ------------------------------------------------------------------------
InstrNext ==
    \/ Tick
    \/ \E p \in Procs, u \in Users, m \in InstrMemories :
          GenerateSystemInstruction(p, u, m)

InstrSpec == Init /\ [][InstrNext]_vars

ReqNext ==
    \E history \in Histories, text \in Texts, audio \in ReqAudios,
       image \in ReqImages, force_log \in BOOLEAN :
          BuildRequest(history, text, audio, image, force_log)

ReqSpec == Init /\ [][ReqNext]_vars

\* ------------------------------------------------------------------------
\* Properties
\* ------------------------------------------------------------------------
DoneFoc(p) == pc[p] = "done" /\ local[p].op = "find_or_create"

\* two raw names that differ only in letter case and surrounding blanks
Fold(r) == [i \in 1..Len(Strip(r)) |-> ToLower(Strip(r)[i])]

\* C1: for every user and normalised name at most one card is stored, and
\* exactly one is stored once a find_or_create on that pair has returned
\* successfully, whatever the interleaving of the calls' store steps.
C1_Uniqueness ==
    /\ \A u \in Users : \A d1, d2 \in cards :
          (d1.user_id = u /\ d2.user_id = u /\ d1.condition_name = d2.condition_name)
              => d1 = d2
    /\ \A p \in Procs : (DoneFoc(p) /\ local[p].result = "ok")
          => Cardinality(CardsFor(local[p].user_id, local[p].normalised)) = 1
    /\ \A key \in DOMAIN returned : returned[key] > 0
          => Cardinality(CardsFor(key[1], key[2])) = 1

\* two calls raced on the same pair: one inserted, the other was rejected
C1_Witness ==
    \E p, q \in Procs :
        /\ DoneFoc(p) /\ DoneFoc(q)
        /\ local[p].user_id = local[q].user_id
        /\ local[p].normalised = local[q].normalised
        /\ local[p].result = "ok" /\ local[p].is_new
        /\ local[q].result = "DuplicateKeyError"
        /\ Cardinality(CardsFor(local[p].user_id, local[p].normalised)) = 1

\* C2: a find_or_create whose insert is rejected by the unique index falls
\* back to lookup-and-update and returns (card, is_new = false); no
\* find_or_create call ends with the conflict as its outcome.
C2_ConflictNeverSurfaced ==
    \A p \in Procs : DoneFoc(p) => (local[p].result = "ok")

\* C3: Scenario E - when the only two calls made so far are two
\* find_or_create calls of the same user and name and both have completed,
\* exactly one card exists for the pair and its log_count is 2.
C3_ScenarioE ==
    \A p, q \in Procs :
        ( /\ p # q
          /\ DoneFoc(p) /\ DoneFoc(q)
          /\ nCalls = 2
          /\ local[p].user_id = local[q].user_id
          /\ Fold(local[p].raw) = Fold(local[q].raw) )
        => /\ Cardinality(CardsFor(local[p].user_id, local[p].normalised)) = 1
           /\ \A d \in CardsFor(local[p].user_id, local[p].normalised) : d.log_count = 2

\* C4: with calls executed one after another, the k-th find_or_create of a
\* user and name returns a card with log_count k, the stored log_count is k,
\* and is_new is true for the first call only.
C4_RecurrenceCount ==
    /\ \A p \in Procs : DoneFoc(p) =>
          /\ local[p].result = "ok"
          /\ local[p].card.log_count = local[p].k
          /\ local[p].is_new <=> (local[p].k = 1)
    /\ \A key \in DOMAIN returned :
          /\ returned[key] = 0 => CardsFor(key[1], key[2]) = {}
          /\ returned[key] > 0 =>
                /\ CardsFor(key[1], key[2]) # {}
                /\ \A d \in CardsFor(key[1], key[2]) : d.log_count = returned[key]

\* the third report of one condition has returned
C4_Witness ==
    \E p \in Procs :
        /\ DoneFoc(p) /\ local[p].k = 3 /\ ~local[p].is_new
        /\ \E d \in cards : d.id = local[p].card.id /\ d.log_count = 3

\* C5: no increment is lost - whenever no call is running, every stored
\* card's log_count equals the number of find_or_create calls that returned
\* successfully for its user and name.
C5_NoLostIncrement ==
    Quiescent =>
        \A d \in cards : d.log_count = returned[<<d.user_id, d.condition_name>>]

\* C6: a find_or_create that finds its card Resolved (or writes over a card
\* that is Resolved) returns is_new = false and leaves that same card stored
\* Active with log_count one higher than it found; no card is added.
C6_Reactivation ==
    [][\A p \in Procs :
          ( /\ pc[p] = "update" /\ pc'[p] = "done"
            /\ \/ local[p].doc.status = RESOLVED
               \/ \E d \in cards : d.id = local[p].doc.id /\ d.status = RESOLVED )
          => /\ local'[p].result = "ok"
             /\ local'[p].is_new = FALSE
             /\ local'[p].card.id = local[p].doc.id
             /\ Cardinality(cards') = Cardinality(cards)
             /\ \E e \in cards' :
                   /\ e.id = local[p].doc.id
                   /\ e.user_id = local[p].user_id
                   /\ e.condition_name = local[p].normalised
                   /\ e.status = ACTIVE
                   /\ e.log_count = local[p].doc.log_count + 1
      ]_vars

\* a report of a resolved condition has returned and the card is active again
C6_Witness ==
    \E p \in Procs :
        /\ DoneFoc(p) /\ local[p].result = "ok"
        /\ local[p].doc.status = RESOLVED
        /\ \E d \in cards : d.id = local[p].doc.id /\ d.status = ACTIVE /\ d.log_count = 2

\* C7: a stored card goes from Active to Resolved only in the write step of
\* resolve_condition on that card; the write step of find_or_create always
\* leaves its card Active; every card enters the store Active.
C7_StatusLifecycle ==
    [][ /\ \A d \in cards : \A e \in cards' :
              (d.id = e.id /\ d.status = ACTIVE /\ e.status = RESOLVED)
                  => \E p \in Procs : /\ pc[p] = "resolve_write" /\ pc'[p] = "done"
                                      /\ local[p].card.id = d.id
        /\ \A p \in Procs : (pc[p] = "update" /\ pc'[p] = "done")
              => \A e \in cards' : e.id = local[p].card.id => e.status = ACTIVE
        /\ \A e \in cards' : (\A d \in cards : d.id # e.id) => e.status = ACTIVE
      ]_vars

\* a resolve read the card, a report of the same card then wrote, and the
\* resolve wrote last: the card is Resolved with the report's count
C7_Witness ==
    \E p, q \in Procs :
        /\ DoneFoc(p) /\ local[p].result = "ok" /\ ~local[p].is_new
        /\ pc[q] = "done" /\ local[q].op = "resolve_condition" /\ local[q].result = "ok"
        /\ local[q].card.id = local[p].card.id
        /\ local[q].doc.log_count < local[p].card.log_count
        /\ \E d \in cards : /\ d.id = local[p].card.id
                            /\ d.status = RESOLVED
                            /\ d.log_count = local[p].card.log_count

\* C8: the write step of resolve_condition succeeds and leaves the card
\* Resolved with its log_count, first_reported and last_reported (and every
\* other card) as they were; on a card that is already Resolved it changes
\* nothing.
C8_ResolveIdempotent ==
    [][\A p \in Procs :
          (pc[p] = "resolve_write" /\ pc'[p] = "done")
          => /\ local'[p].result = "ok"
             /\ local'[p].card.status = RESOLVED
             /\ \A d \in cards : d.id = local[p].card.id =>
                   /\ [d EXCEPT !.status = RESOLVED]
                         \in cards'
                   /\ cards' \ { e \in cards' : e.id = d.id } = cards \ {d}
      ]_vars

\* a resolve of a card that was read Resolved has returned
C8_Witness ==
    \E p \in Procs :
        /\ pc[p] = "done" /\ local[p].op = "resolve_condition" /\ local[p].result = "ok"
        /\ local[p].doc.status = RESOLVED
        /\ \E d \in cards : d.id = local[p].card.id /\ d.status = RESOLVED

\* C9: with calls executed one after another, once find_or_create(u, r1)
\* has returned a card, a find_or_create(u, r2) or get_condition_by_name(u, r2)
\* with r2 differing from r1 only in letter case and surrounding blanks
\* returns successfully with the same card id.
C9_SoleIdentityKey ==
    [][\A q \in Procs :
          ( /\ pc'[q] = "done" /\ local'[q] # local[q]
            /\ local'[q].op \in {"find_or_create", "get_condition_by_name"} )
          => \A p \in Procs \ {q} :
                ( /\ DoneFoc(p) /\ local[p].result = "ok"
                  /\ local[p].user_id = local'[q].user_id
                  /\ Fold(local[p].raw) = Fold(local'[q].raw) )
                => /\ local'[q].result = "ok"
                   /\ local'[q].card.id = local[p].card.id
      ]_vars

\* a second report under another spelling returned the existing card and a
\* lookup under yet another spelling found it
C9_Witness ==
    \E p, q \in Procs :
        /\ DoneFoc(p) /\ local[p].result = "ok" /\ ~local[p].is_new
        /\ pc[q] = "done" /\ local[q].op = "get_condition_by_name" /\ local[q].result = "ok"
        /\ local[p].user_id = local[q].user_id
        /\ local[p].raw # local[q].raw
        /\ local[p].card.id = local[q].card.id

\* C10: normalising a normalised name changes nothing - the name a card is
\* hydrated with equals the name that was written.
C10_NormalizeIdempotent ==
    npc = "hydrated" => norm = str

\* a two-letter name has been written title-cased and hydrated
C10_Witness ==
    /\ npc = "hydrated"
    /\ Len(norm) = 2
    /\ norm[1] \in UpperCase /\ norm[2] \in LowerCase

\* ------------------------------------------------------------------------
\* Properties of the memory store
\* ------------------------------------------------------------------------
MemoriesOf(u) == { d \in memory : d.user_id = u }

\* the summary a reader of the user's memory sees
SummaryOf(u) == FindMemory(u).summary_memory

RECURSIVE JoinLines(_)
\* "\n".join(ls)
JoinLines(ls) ==
    IF ls = <<>> THEN <<>>
    ELSE IF Len(ls) = 1 THEN ls[1]
    ELSE JoinLines(SubSeq(ls, 1, Len(ls) - 1)) \o <<"\n">> \o ls[Len(ls)]

\* C11: in every reachable state, also when the find and insert steps of two
\* get_or_create_memory calls for the same user interleave, the memory
\* collection holds at most one record per user.
C11_OneMemoryPerUser ==
    \A u \in Users : Cardinality(MemoriesOf(u)) <= 1

\* an append_to_summary call that stores its result leaves the summary equal
\* to the line if it was empty and to summary + newline + line otherwise
AppendStep ==
    \A p \in Procs :
        (mpc[p] = "save" /\ mpc'[p] = "done" /\ mlocal[p].op = "append_to_summary")
        => LET u == mlocal[p].user_id
               s == SummaryOf(u)
               line == mlocal[p].addition
           IN  SummaryOf(u)' = IF s = <<>> THEN line ELSE s \o <<"\n">> \o line

\* C20 (as stated): without overlap, append_to_summary(u, line) on a stored
\* summary s leaves line if s is empty and s + newline + line otherwise; hence
\* after sequential appends of l1..lk to a fresh user the summary is l1..lk
\* joined by newlines, in call order.
C20_AppendSemantics ==
    /\ [][AppendStep]_vars
    /\ [](\A u \in Users : SummaryOf(u) = JoinLines(appended[u]))

\* C20 (amended): the same step semantics; the summary after sequential
\* appends of l1..lk to a fresh user is l1..lk joined by newlines, in call
\* order, provided the first line l1 is not the empty string.
C20_AppendSemanticsNonEmptyFirst ==
    /\ [][AppendStep]_vars
    /\ [](\A u \in Users :
            (appended[u] # <<>> /\ appended[u][1] # <<>>)
            => SummaryOf(u) = JoinLines(appended[u]))

\* two lines, the first one non-empty, have been appended for one user
C20_Witness ==
    /\ MQuiescent
    /\ \E u \in Users :
          /\ Len(appended[u]) >= 2
          /\ appended[u][1] # <<>>
          /\ appended[u][2] # <<>>
          /\ SummaryOf(u) = appended[u][1] \o <<"\n">> \o appended[u][2]

\* ------------------------------------------------------------------------
\* Properties of the process_input pipeline
\* ------------------------------------------------------------------------
\* the stores hold what they held when the run started
StoresAsBefore == Snapshot = run.before

\* the parsed response is not a loggable event
NotLoggable(result) ==
    result.action # "update_condition" \/ result.condition_name = <<>>

\* C12: a run that ends in an error after input validation has passed leaves
\* the stored cards, the stored log entries and the stored memory summaries
\* as they were before the run.
C12_FailureAtomicity ==
    (run.pc = "done" /\ run.outcome \notin {"ok", "ValueError"})
    => StoresAsBefore

\* C13: a parsed response whose action is not update_condition, or whose
\* condition_name is empty, ends the run successfully with no card created or
\* changed, no log entry created and the memory summaries unchanged.
C13_NoPersistenceWithoutEvent ==
    (run.raw_text = "json" /\ run.result.kind = "json" /\ NotLoggable(run.result))
    => /\ run.pc = "done"
       /\ run.outcome = "ok"
       /\ run.card_id = 0
       /\ run.log_id = 0
       /\ run.events = <<>>
       /\ StoresAsBefore

\* a clarification request that names a condition came back while a card and
\* a log entry of an earlier run are stored
C13_Witness ==
    /\ run.pc = "done"
    /\ run.outcome = "ok"
    /\ run.result.action = "request_clarification"
    /\ run.result.condition_name # <<>>
    /\ cards # {}
    /\ logs # {}
    /\ StoresAsBefore

\* the run has succeeded on a loggable event
LoggedOk ==
    /\ run.pc = "done"
    /\ run.outcome = "ok"
    /\ run.result.action = "update_condition"
    /\ run.result.condition_name # <<>>

\* C14: a successful run on an update_condition with a non-empty name creates
\* exactly one log entry, owned by the caller, whose condition_id is the id of
\* the card find_or_create returned in the run, the card stored for (caller,
\* normalised name); reports whose names normalise equally reference the same
\* card id.
C14_OneLinkedLogPerEvent ==
    /\ LoggedOk =>
         \E l \in logs :
            /\ l \notin run.before.logs
            /\ logs = run.before.logs \cup {l}
            /\ l.id = run.log_id
            /\ l.user_id = run.user_id
            /\ l.condition_id = run.card_id
            /\ \E c \in cards :
                  /\ c.id = l.condition_id
                  /\ c.user_id = run.user_id
                  /\ Fold(c.condition_name) = Fold(run.result.condition_name)
    /\ \A l1, l2 \in logs :
          (l1.user_id = l2.user_id
           /\ Fold(l1.condition_name) = Fold(l2.condition_name))
          => l1.condition_id = l2.condition_id

\* one user has reported the same condition under two spellings; both log
\* entries reference the one card
C14_Witness ==
    /\ LoggedOk
    /\ \E l1, l2 \in logs :
          /\ l1.user_id = l2.user_id
          /\ l1.condition_name # l2.condition_name
          /\ l1.condition_id = l2.condition_id
          /\ l2.id = run.log_id
          /\ \E c \in cards : c.id = l1.condition_id /\ c.log_count = 2

\* s is an initial part of t
IsPrefix(s, t) == Len(s) <= Len(t) /\ s = SubSeq(t, 1, Len(s))

\* C15: in a run whose action is update_condition the writes happen in the
\* order card upsert, log persistence, summary append, so that no summary line
\* is stored for an event whose log entry was not persisted.
C15_PipelineOrder ==
    IsPrefix(run.events, <<"card", "log", "summary">>)

\* what was supplied to the run
Supplied ==
    { k \in {"text", "audio", "image"} :
        \/ k = "text" /\ run.text # NoValue
        \/ k = "audio" /\ run.audio # NoValue
        \/ k = "image" /\ run.image # NoValue }

\* the input mode naming a set of supplied inputs
ModeNaming(set) ==
    CASE set = {"text"} -> "text"
      [] set = {"audio"} -> "voice"
      [] set = {"image"} -> "image"
      [] set = {"text", "image"} -> "text_image"
      [] set = {"text", "audio"} -> "text_voice"
      [] set = {"audio", "image"} -> "voice_image"
      [] set = {"text", "audio", "image"} -> "all"
      [] OTHER -> "none"

\* C16: for each non-empty subset of {text, audio, image} supplied, the input
\* mode the run derives is the one naming exactly that subset, and it is the
\* input_mode stored on the log entry the run creates.
C16_InputModeClassification ==
    (run.pc # "idle" /\ Supplied # {})
    => /\ run.input_mode = ModeNaming(Supplied)
       /\ \A l \in logs : l.id = run.log_id => l.input_mode = ModeNaming(Supplied)

\* a run given text, audio and image has stored its log entry
C16_Witness ==
    /\ LoggedOk
    /\ Supplied = {"text", "audio", "image"}
    /\ \E l \in logs : l.id = run.log_id /\ l.input_mode = "all"

\* C17: process_input fails with the invalid-input error exactly when text,
\* audio and image are all absent and the force flag is not set; with all
\* three absent and the flag set it goes on to the oracle call.
C17_InvalidInputUnlessForced ==
    run.pc = "done"
    => (run.outcome = "ValueError" <=> (Supplied = {} /\ ~run.force_log))

\* C18: a run calls the oracle at most once; an empty or non-JSON response
\* ends it with the oracle error, which is not the invalid-input error,
\* without a second call and without a card, a log entry or a summary line.
C18_OracleFailureTerminal ==
    /\ run.oracle_calls <= 1
    /\ run.raw_text \in {"empty", "garbage"}
       => /\ run.pc = "done"
          /\ run.outcome = "RuntimeError"
          /\ run.outcome # "ValueError"
          /\ run.oracle_calls = 1
          /\ run.events = <<>>
          /\ StoresAsBefore

\* the oracle answered with no text while a card and a log entry of an
\* earlier run are stored
C18_Witness ==
    /\ run.pc = "done"
    /\ run.raw_text = "empty"
    /\ run.outcome = "RuntimeError"
    /\ cards # {}
    /\ logs # {}

\* the parsed response lacks a required field of the response contract
LacksRequiredField(result) ==
    \/ result.action = Missing
    \/ /\ result.action = "update_condition"
       /\ \/ result.extracted_data = NoData
          \/ ~result.extracted_data.has_pain_level

\* C19: a response that parses as JSON but lacks a required field ends the
\* run with the malformed-response error and persists no card and no log
\* entry; no log entry is stored with a default in place of an omitted field.
C19_MissingFieldsRejected ==
    (run.raw_text = "json" /\ run.result.kind = "json"
     /\ LacksRequiredField(run.result))
    => /\ run.pc = "done"
       /\ run.outcome = "RuntimeError"
       /\ cards = run.before.cards
       /\ logs = run.before.logs

\* ------------------------------------------------------------------------
\* Properties of the memory store: preferences and concurrent writers
\* ------------------------------------------------------------------------
\* the preferences a reader of the user's memory sees
PrefsOf(u) == FindMemory(u).persona_preferences

\* C21: with no update_summary call in the execution, also when
\* append_to_summary and update_preferences calls for one user interleave,
\* every change of a user's stored summary extends it: the summary stored
\* before is a prefix of the summary stored after.
C21_SummaryAppendOnly ==
    [][\A u \in Users : IsPrefix(SummaryOf(u), SummaryOf(u)')]_vars

\* C22: without overlap, update_preferences(u, fields) sets exactly the
\* supplied fields to the given values and leaves the other preference fields
\* and the stored summary unchanged; the memory record exists afterwards,
\* created with defaults if there was none.
C22_PreferencesMerge ==
    [][\A p \in Procs :
          (mpc[p] = "save" /\ mpc'[p] = "done"
           /\ mlocal[p].op = "update_preferences")
          => LET u == mlocal[p].user_id
                 f == mlocal[p].fields
             IN  /\ \A k \in {"tone", "name_used", "mascot_name"} :
                        PrefsOf(u)'[k] = IF f[k] # NoValue THEN f[k]
                                         ELSE PrefsOf(u)[k]
                 /\ SummaryOf(u)' = SummaryOf(u)
                 /\ Cardinality(MemoriesOf(u)') = 1]_vars

\* a user with a stored summary has had the tone set by one update and the
\* names by another; the field each update left out kept its value
C22_Witness ==
    /\ MQuiescent
    /\ \E u \in Users :
          /\ SummaryOf(u) # <<>>
          /\ PrefsOf(u).tone = "playful"
          /\ PrefsOf(u).name_used = "Sam"
          /\ PrefsOf(u).mascot_name = "Koda"

\* C30: the stored preferences of a user change only when an
\* update_preferences call for that user stores its result; an
\* append_to_summary that overlaps an update never writes older preference
\* values back.
C30_PreferencesNotUndone ==
    [][\A u \in Users :
          PrefsOf(u)' # PrefsOf(u)
          => \E p \in Procs :
                /\ mpc[p] = "save"
                /\ mpc'[p] = "done"
                /\ mlocal[p].op = "update_preferences"
                /\ mlocal[p].user_id = u]_vars

\* ------------------------------------------------------------------------
\* Properties of the condition log
\* ------------------------------------------------------------------------
\* the step is a log deletion request
DeleteStep == nRuns' # nRuns /\ run'.op = "delete_log"

\* C23: a stored log entry is never changed; it leaves the store only by
\* delete_log on its id or delete_all_for_user on its owner, and the delete
\* endpoint removes a log only for its owner: any other requester gets 403
\* and the log stays.
C23_LogsImmutable ==
    [][/\ \A l \in logs :
            \/ l \in logs'
            \/ /\ DeleteStep
               /\ run'.outcome = "200"
               /\ run'.log_id = l.id
               /\ run'.user_id = l.user_id
            \/ /\ nRuns' # nRuns
               /\ run'.op = "delete_all_for_user"
               /\ run'.user_id = l.user_id
       /\ DeleteStep =>
            /\ run'.outcome = "403"
               <=> \E l \in logs : l.id = run'.log_id /\ l.user_id # run'.user_id
            /\ run'.outcome # "200" => logs' = logs]_vars

\* a user who does not own a stored log asked to delete it: 403, the log stays
C23_Witness ==
    /\ run.op = "delete_log"
    /\ run.outcome = "403"
    /\ \E l \in logs : l.id = run.log_id /\ l.user_id # run.user_id

\* C28: whenever no request is in flight, every stored card's log_count is
\* the number of stored log entries whose condition_id is that card, after
\* any sequence of process_input runs and delete_log calls.
C28_LogCountMatchesLogs ==
    run.pc \in {"idle", "done"}
    => \A c \in cards :
          c.log_count = Cardinality({ l \in logs : l.condition_id = c.id })

\* ------------------------------------------------------------------------
\* Properties of the pure parts
\* ------------------------------------------------------------------------
Called(p) == instr[p] # NoInstruction

\* C24: two generate_system_instruction calls with equal preferences and
\* equal summary return the same text, whatever else differs (time of call,
\* user id); the text carries the first-conversation notice in place of the
\* memory block content exactly when the summary is empty.
C24_InstructionDeterministic ==
    /\ \A p, q \in Procs :
          (Called(p) /\ Called(q)
           /\ instr[p].memory.persona_preferences = instr[q].memory.persona_preferences
           /\ instr[p].memory.summary_memory = instr[q].memory.summary_memory)
          => instr[p].text = instr[q].text
    /\ \A p \in Procs :
          Called(p)
          => ((\E i \in 1..Len(instr[p].text) :
                  instr[p].text[i] = "first conversation with")
              <=> instr[p].memory.summary_memory = <<>>)

\* C26: for every accepted input the request is the prior turns in their
\* order (role user as user, any other role as model) followed by exactly one
\* current user turn that holds the content parts, every audio or image part
\* immediately followed by its caption.
C26_RequestShape ==
    req.outcome = "accepted"
    => LET c == req.contents
           n == Len(req.history)
       IN  /\ Len(c) = n + 1
           /\ \A i \in 1..n :
                 c[i].role = IF req.history[i] = "user" THEN "user" ELSE "model"
           /\ c[n + 1].role = "user"
           /\ c[n + 1].parts # <<>>
           /\ \A i \in 1..Len(c[n + 1].parts) :
                 /\ c[n + 1].parts[i] = "audio"
                    => /\ i < Len(c[n + 1].parts)
                       /\ c[n + 1].parts[i + 1] = "voice caption"
                 /\ c[n + 1].parts[i] = "image"
                    => /\ i < Len(c[n + 1].parts)
                       /\ c[n + 1].parts[i + 1] = "photo caption"

C29_LastReportedMonotone ==
    [][\A d \in cards : \A e \in cards' :
          e.id = d.id => /\ e.last_reported >= d.last_reported
                         /\ e.first_reported = d.first_reported]_vars

\* ------------------------------------------------------------------------
\* Properties of the card listing
\* ------------------------------------------------------------------------
\* worker p returns from get_conditions_for_user in this step
ListingStep(p) ==
    /\ nCalls' # nCalls
    /\ local'[p].op = "get_conditions_for_user"
    /\ pc'[p] = "done"
    /\ local'[p] # local[p] \/ pc'[p] # pc[p]

\* the returned list holds exactly the cards of u with the status asked for,
\* each once, latest last_reported first
ListingExact(p) ==
    LET l == local'[p]
        owned == { d \in cards : /\ d.user_id = l.user_id
                                 /\ l.status \in {ACTIVE, RESOLVED} => d.status = l.status }
    IN  /\ { l.list[i] : i \in DOMAIN l.list } = owned
        /\ Len(l.list) = Cardinality(owned)
        /\ \A i, j \in DOMAIN l.list :
              i < j => l.list[i].last_reported >= l.list[j].last_reported

\* worker p returns a card from find_or_create in this step and no other
\* call is in flight
FocCompletes(p) ==
    /\ pc[p] \in {"update", "insert"}
    /\ pc'[p] = "done"
    /\ local'[p].op = "find_or_create"
    /\ local'[p].result = "ok"
    /\ \A q \in Procs : pc'[q] \in {"idle", "done"}

\* the stored card that find_or_create returned to p
StoredCard(p) == CHOOSE d \in cards' : d.id = local'[p].card.id

\* C25: get_conditions_for_user(u, status) returns exactly u's cards (of the
\* given status when one is given) by last_reported descending; and
\* immediately after a find_or_create(u, n) completes with no other call in
\* flight its card is the first element of the unfiltered and of the
\* Active-filtered list, whichever order the sort gives to equal
\* timestamps: the card is active and every other card of u is strictly
\* older.
C25_ListingLatestFirst ==
    [][/\ \A p \in Procs : ListingStep(p) => ListingExact(p)
       /\ \A p \in Procs :
             FocCompletes(p)
             => /\ StoredCard(p).status = ACTIVE
                /\ \A d \in cards' :
                      (d.user_id = local'[p].user_id /\ d.id # local'[p].card.id)
                      => d.last_reported < StoredCard(p).last_reported]_vars

\* C25 (amended): the listing is exact and by last_reported descending; and
\* immediately after a find_or_create(u, n) that overlapped no other call
\* completes, its card is active and no card of u has a later last_reported,
\* so the card is first in both lists up to the order among equal timestamps.
C25_ListingLatestFirstUpToTies ==
    [][/\ \A p \in Procs : ListingStep(p) => ListingExact(p)
       /\ \A p \in Procs :
             FocCompletes(p)
             => /\ StoredCard(p).status = ACTIVE
                /\ \A d \in cards' :
                      d.user_id = local'[p].user_id
                      => d.last_reported <= StoredCard(p).last_reported]_vars

\* a listing made right after a find_or_create returned: two cards of the
\* user, the one find_or_create returned first and the older one after it
C25_Witness ==
    \E p, q \in Procs :
        /\ pc[q] = "done" /\ local[q].op = "find_or_create" /\ local[q].result = "ok"
        /\ pc[p] = "done" /\ local[p].op = "get_conditions_for_user"
        /\ local[p].user_id = local[q].user_id
        /\ Len(local[p].list) = 2
        /\ local[p].list[1].id = local[q].card.id
        /\ local[p].list[2].last_reported < local[p].list[1].last_reported
====
